---------------------------- MODULE Spec2Model ----------------------------
(***************************************************************************)
(* Model of the Obsidian Transcription plugin: the command "Transcribe all *)
(* audio files in view" (main.ts, editorCallback) and the Whisper ASR      *)
(* client (transcribe.ts, getTranscriptionWhisperASR).                     *)
(*                                                                         *)
(* Strings are sequences of one-character strings, so that split, indexOf, *)
(* slice, trim and join are computed as JavaScript computes them.  Fixed   *)
(* phrases of messages and of the multipart header are kept as one element *)
(* each.                                                                   *)
(***************************************************************************)
EXTENDS Integers, Sequences, FiniteSets, TLC

VARIABLES
    settings,     \* TranscriptionSettings: timestamps, transcribeFileExtensions, debug
    links,        \* the links of the markdown file, one per occurrence, in document order
    vaultFiles,   \* the paths getAbstractFileByPath resolves to a TFile
    vaultBinary,  \* path -> bytes of the file (vault.readBinary)
    doc,          \* the text of the markdown file (vault.read / vault.modify)
    created,      \* the files written by vault.createBinary: set of [path, data]
    queue,        \* filesToTranscribe not yet dispatched by the running editorCallback
    candidates,   \* filesToTranscribe of the latest invocation of the command
    tasks,        \* one record per dispatched getTranscription(...).then(...).catch(...)
    notices,      \* the Notices shown so far, in order
    runs          \* number of invocations of the command

vars == <<settings, links, vaultFiles, vaultBinary, doc, created, queue,
          candidates, tasks, notices, runs>>

---------------------------------------------------------------------------
(* Bounds of the model *)

MaxLinks == 2      \* links per document in SpecSplice
MaxRuns == 2       \* invocations of the command
MaxTasks == 2      \* transcriptions dispatched in all invocations together
MaxCollectLinks == 3  \* links per document in SpecCollect
MaxBytes == 3      \* length of an audio file in SpecMultipart
MaxEdits == 1      \* texts the user appends to the document in SpecEdit

---------------------------------------------------------------------------
(* JavaScript string and array operations *)

Min(a, b) == IF a < b THEN a ELSE b
Max(a, b) == IF a > b THEN a ELSE b

\* s.slice(start, end): negative indices count from the end, both are clamped
Slice(s, start, end) ==
    LET n == Len(s)
        from == IF start < 0 THEN Max(n + start, 0) ELSE Min(start, n)
        to == IF end < 0 THEN Max(n + end, 0) ELSE Min(end, n)
    IN  IF from >= to THEN << >> ELSE SubSeq(s, from + 1, to)

\* s.slice(start)
SliceFrom(s, start) == Slice(s, start, Len(s))

\* does t occur in s at the 0-based position i
OccursAt(s, t, i) ==
    /\ i >= 0
    /\ i + Len(t) <= Len(s)
    /\ \A k \in 1..Len(t) : s[i + k] = t[k]

\* s.indexOf(t): the 0-based position of the first occurrence, -1 if none
IndexOf(s, t) ==
    LET hits == {i \in 0..Len(s) : OccursAt(s, t, i)}
    IN  IF hits = {} THEN -1 ELSE CHOOSE i \in hits : \A j \in hits : i <= j

\* s.lastIndexOf(t)
LastIndexOf(s, t) ==
    LET hits == {i \in 0..Len(s) : OccursAt(s, t, i)}
    IN  IF hits = {} THEN -1 ELSE CHOOSE i \in hits : \A j \in hits : i >= j

\* s.split(sep) for a one-character separator: "".split(",") is [""]
RECURSIVE Split(_, _)
Split(s, sep) ==
    LET i == IndexOf(s, <<sep>>)
    IN  IF i = -1 THEN <<s>>
        ELSE <<Slice(s, 0, i)>> \o Split(SliceFrom(s, i + 1), sep)

\* array.pop() of a non-empty array: its last element
Pop(a) == a[Len(a)]

\* array.includes(x)
Includes(a, x) == \E i \in 1..Len(a) : a[i] = x

\* array.join(sep)
RECURSIVE Join(_, _)
Join(a, sep) ==
    IF Len(a) = 0 THEN << >>
    ELSE IF Len(a) = 1 THEN a[1]
    ELSE a[1] \o sep \o Join(Tail(a), sep)

WhiteSpace == {" ", "\t", "\n", "\r"}

\* s.trim()
RECURSIVE TrimStart(_)
TrimStart(s) ==
    IF s # << >> /\ Head(s) \in WhiteSpace THEN TrimStart(Tail(s)) ELSE s

RECURSIVE TrimEnd(_)
TrimEnd(s) ==
    IF s # << >> /\ s[Len(s)] \in WhiteSpace
    THEN TrimEnd(SubSeq(s, 1, Len(s) - 1)) ELSE s

Trim(s) == TrimEnd(TrimStart(s))

\* the sequences over S of length at most n
SeqsUpTo(S, n) == UNION {[1..k -> S] : k \in 0..n}


---------------------------------------------------------------------------
(* The vault: files, their host attributes, the links of the document *)

AM == <<"d", "/", "a", ".", "m">>     \* d/a.m
BM == <<"d", "/", "b", ".", "m">>     \* d/b.m
CW == <<"d", "/", "c", ".", "w">>     \* d/c.w
AUpper == <<"d", "/", "a", ".", "M">> \* d/a.M
NoteN == <<"n">>                      \* n, a file without extension
NoteM == <<"m">>                      \* m, a file without extension

\* the links of the documents of Spec: no link, one link, two links whose
\* files share an extension or not, one link twice
MainDocs == {<< >>, <<AM>>, <<AM, BM>>, <<AM, CW>>, <<CW, AM>>, <<AM, AM>>}
Paths == {AM, BM, CW, AUpper, NoteN, NoteM}

\* TFile.name: the part of the path after the last "/"
FileName(path) == SliceFrom(path, LastIndexOf(path, <<"/">>) + 1)

\* TFile.parent.path: the folder of the file, "/" for the vault's root
ParentPath(path) ==
    LET i == LastIndexOf(path, <<"/">>)
    IN  IF i = -1 THEN <<"/">> ELSE Slice(path, 0, i)

\* metadataCache.fileToLinktext(file, sourcePath): the shortest link text that
\* names the file; file names are unique in this vault, and the extension of a
\* file that is not markdown is kept
FileToLinktext(path) == FileName(path)

\* `[[${fileLinkString}]]`
FileLinkStringTagged(fileLinkString) ==
    <<"[", "[">> \o fileLinkString \o <<"]", "]">>

\* the text of a document that cites the links ls, one per line
RECURSIVE DocOf(_)
DocOf(ls) ==
    IF ls = << >> THEN << >>
    ELSE FileLinkStringTagged(FileToLinktext(Head(ls))) \o <<"\n">> \o DocOf(Tail(ls))

\* FilesLinked with one entry per occurrence of a link
FilesLinkedPerOccurrence(ls) == ls

\* Object.keys(metadataCache.resolvedLinks[markdownFilePath]): resolvedLinks maps
\* each linked path to the number of its occurrences, so every path is one key,
\* in the order the keys were inserted
RECURSIVE FilesLinked(_)
FilesLinked(ls) ==
    IF ls = << >> THEN << >>
    ELSE LET before == FilesLinked(SubSeq(ls, 1, Len(ls) - 1))
             last == ls[Len(ls)]
         IN  IF Includes(before, last) THEN before ELSE Append(before, last)

---------------------------------------------------------------------------
(* Link collection: main.ts, editorCallback, lines 69-107 *)

\* linkedFilePath.split(".").pop()
LinkedFileExtension(linkedFilePath) == Pop(Split(linkedFilePath, "."))

\* the test of lines 80-85 negated: the extension is in the comma-separated list
\* (split never returns an empty array, so pop() is never undefined)
IsTranscribable(linkedFilePath, transcribeFileExtensions) ==
    Includes(Split(transcribeFileExtensions, ","), LinkedFileExtension(linkedFilePath))

\* the loop of lines 77-107
FilesToTranscribe(filesLinked, transcribeFileExtensions, files) ==
    SelectSeq(filesLinked,
              LAMBDA p : IsTranscribable(p, transcribeFileExtensions) /\ p \in files)

\* values of the setting transcribeFileExtensions: "m,w", "m", "w", " m,w", ""
ExtMW == <<"m", ",", "w">>
ExtM == <<"m">>
ExtW == <<"w">>
ExtSpaceMW == <<" ", "m", ",", "w">>
ExtEmpty == << >>
ExtSettings == {ExtMW, ExtM, ExtW, ExtSpaceMW, ExtEmpty}

---------------------------------------------------------------------------
(* The Whisper ASR client: transcribe.ts, getTranscriptionWhisperASR *)

RandomLen == 16

\* randomString(n) of src/utils: one of the strings of n alphanumeric characters
RandomStringValues(n) == {[i \in 1..n |-> c] : c \in {"p", "q"}}

CRLF == <<"\r", "\n">>
Dashes(n) == [i \in 1..n |-> "-"]

\* "Boundary" + randomString(16)
RandomBoundaryString(random) == <<"Boundary">> \o random

\* pre_string, line 86
PreString(randomBoundaryString) ==
    Dashes(6) \o randomBoundaryString \o CRLF
    \o <<"Content-Disposition: form-data; name=\"audio_file\"; filename=\"blob\"">> \o CRLF
    \o <<"Content-Type: \"application/octet-stream\"">> \o CRLF \o CRLF

\* post_string, line 87
PostString(randomBoundaryString) ==
    CRLF \o Dashes(6) \o randomBoundaryString \o <<"-", "-">>

\* ContentType with the boundary of the body taken as the parameter's value
ContentTypeTwoDashes(randomBoundaryString) ==
    <<"multipart/form-data; ", "boundary=">> \o Dashes(2) \o randomBoundaryString

\* contentType, line 111
ContentType(randomBoundaryString) ==
    <<"multipart/form-data; ", "boundary=">> \o Dashes(4) \o randomBoundaryString

\* options, lines 92-113: TextEncoder leaves the ASCII pre_string and post_string
\* as they are, the Blob concatenates the three parts
RequestOptions(data, randomBoundaryString, whisperASRUrl) ==
    [method |-> "POST",
     url |-> whisperASRUrl \o <<"/asr?task=transcribe&language=en&output=json">>,
     contentType |-> ContentType(randomBoundaryString),
     body |-> PreString(randomBoundaryString) \o data
              \o PostString(randomBoundaryString)]

NoRequest == [method |-> "", url |-> << >>, contentType |-> << >>, body |-> << >>]

\* response.json: the parsed body.  segments is a list of segments (of which the
\* model keeps the text), or missing, or a value that is no list
Json(text, segmentsTag, segmentTexts) ==
    [text |-> text, language |-> "en",
     segments |-> [tag |-> segmentsTag, items |-> segmentTexts]]

NoJson == Json(<< >>, "none", << >>)

Hello == <<"H">>
World == <<" ", "w", " ">>
Spaced == <<"\n", "u", " ", "v", "\t">>

ReplyHello == Json(<<"H", " ", "w">>, "list", <<Hello, World>>)
ReplySpaced == Json(<<"u", " ", "v">>, "list", <<Spaced>>)
ReplyEmpty == Json(<< >>, "list", << >>)
ReplyBlank == Json(<< >>, "list", <<<<" ">>, << >>>>)
ReplyNoSegments == Json(<<"H">>, "missing", << >>)
ReplySegmentsString == Json(<<"H">>, "string", << >>)

MainReplies == {ReplyHello, ReplySpaced, ReplyNoSegments}
AllReplies == {ReplyHello, ReplySpaced, ReplyEmpty, ReplyBlank,
               ReplyNoSegments, ReplySegmentsString}

\* the TranscriptionResult interface, lines 24-28
IsTranscriptionResult(json) == json.segments.tag = "list"

---------------------------------------------------------------------------
(* Integration of a transcription: main.ts, editorCallback, lines 116-186 *)

\* StartReplacementIndex taken after the last occurrence of the citation
StartReplacementIndexLast(fileText, fileLinkStringTagged) ==
    LastIndexOf(fileText, fileLinkStringTagged) + Len(fileLinkStringTagged)

\* startReplacementIndex, lines 140-142
StartReplacementIndex(fileText, fileLinkStringTagged) ==
    IndexOf(fileText, fileLinkStringTagged) + Len(fileLinkStringTagged)

\* SegmentsText without the trim of each segment
SegmentsTextUntrimmed(transcription) ==
    Join(transcription.segments.items, <<"\n">>)

\* segments, lines 146-150
SegmentsText(transcription) ==
    Join([i \in 1..Len(transcription.segments.items) |->
              Trim(transcription.segments.items[i])], <<"\n">>)

\* the new fileText, lines 153-157
Spliced(fileText, fileLinkString, transcription) ==
    LET startReplacementIndex ==
            StartReplacementIndex(fileText, FileLinkStringTagged(fileLinkString))
    IN  Slice(fileText, 0, startReplacementIndex)
        \o (<<"\n">> \o SegmentsText(transcription))
        \o SliceFrom(fileText, startReplacementIndex)

\* fileLinkStringJson, lines 165-167
FileLinkStringJson(fileLinkString) ==
    Pop(Split(fileLinkString, ".")) \o <<".", "j", "s", "o", "n">>

\* the path given to createBinary, line 170
SidecarPath(file) ==
    CHOOSE path \in {ParentPath(file) \o <<"/">> \o FileLinkStringJson(fileLinkString) :
                        fileLinkString \in {FileToLinktext(file)}} : TRUE

\* ErrorNoticeMessage with the file named in both modes
ErrorNoticeMessageNamed(debug, name, error) ==
    IF debug
    THEN <<"Error transcribing file ">> \o name \o <<": ", error>>
    ELSE <<"Error transcribing file ">> \o name
         \o <<", enable debug mode to see more">>

\* the message of the Notice of the catch handler, lines 174-186
ErrorNoticeMessage(debug, name, error) ==
    IF debug
    THEN <<"Error transcribing file ">> \o name \o <<": ", error>>
    ELSE <<"Error transcribing file, enable debug mode to see more">>

\* JSON.stringify(transcription) of a TranscriptionResult, encoded by TextEncoder
JsonStringify(transcription) ==
    <<"{\"text\":\"">> \o transcription.text \o <<"\",\"segments\":[">>
    \o Join([i \in 1..Len(transcription.segments.items) |->
                 <<"{\"text\":\"">> \o transcription.segments.items[i] \o <<"\"}">>],
            <<",">>)
    \o <<"],\"language\":\"", transcription.language, "\"}">>

---------------------------------------------------------------------------
(* State *)

DefaultUrl == <<"http://localhost:9000">>

\* the audio bytes of the files of the vault in Spec
MainBinary == [p \in Paths |-> <<"A", "-">>]

Bytes == {"A", "-", "\r", "\n"}

NewTask(file, run) ==
    [file |-> file, run |-> run, pc |-> "readBinary", request |-> NoRequest,
     transcription |-> NoJson, fileText |-> << >>, wrote |-> FALSE, error |-> "",
     reads |-> 1, posts |-> 0]

InitWith(linkChoices, extChoices, debugChoices, fileChoices, binaryChoices) ==
    /\ settings \in [timestamps : {FALSE}, transcribeFileExtensions : extChoices,
                     whisperASRUrl : {DefaultUrl}, debug : debugChoices]
    /\ links \in linkChoices
    /\ vaultFiles \in fileChoices
    /\ vaultBinary \in binaryChoices
    /\ doc = DocOf(links)
    /\ created = {}
    /\ queue = << >>
    /\ candidates = << >>
    /\ tasks = << >>
    /\ notices = << >>
    /\ runs = 0

Init ==
    InitWith(MainDocs, {ExtMW}, BOOLEAN, {Paths}, {MainBinary})

InitCollect ==
    InitWith(SeqsUpTo(Paths, MaxCollectLinks), ExtSettings, {FALSE},
             {Paths, Paths \ {BM}}, {MainBinary})

InitMultipart ==
    InitWith({<<AM>>}, {ExtMW}, {FALSE}, {Paths},
             {[p \in Paths |-> data] : data \in SeqsUpTo(Bytes, MaxBytes)})

---------------------------------------------------------------------------
(* The command: main.ts, editorCallback *)

\* The callback has no await: it runs from line 57 to line 188 before any
\* continuation does.  StartRun is lines 57-107, DispatchNext one iteration of
\* the loop of line 111, and every continuation waits for the queue to be empty.
StartRun ==
    /\ queue = << >>
    /\ runs < MaxRuns
    /\ runs' = runs + 1
    /\ notices' = Append(notices,
            [message |-> <<"Transcribing all audio files in ", "doc.md">>, task |-> 0])
    /\ candidates' = FilesToTranscribe(FilesLinked(links),
                                       settings.transcribeFileExtensions, vaultFiles)
    /\ Len(tasks) + Len(candidates') <= MaxTasks
    /\ queue' = candidates'
    /\ UNCHANGED <<settings, links, vaultFiles, vaultBinary, doc, created, tasks>>

\* getTranscription(fileToTranscribe) runs up to its first await, the call of
\* vault.readBinary (transcribe.ts, line 95), and the chain .then().catch() is set up
DispatchNext ==
    /\ queue # << >>
    /\ tasks' = Append(tasks, NewTask(Head(queue), runs))
    /\ queue' = Tail(queue)
    /\ UNCHANGED <<settings, links, vaultFiles, vaultBinary, doc, created,
                   candidates, notices, runs>>

\* TasksAfterRejection with a rejection that settles every pending chain, as
\* a join of the chains would
TasksAfterRejectionOfAll(t, error) ==
    [u \in 1..Len(tasks) |->
        IF u = t \/ tasks[u].pc \notin {"done", "failed"}
        THEN [tasks[u] EXCEPT !.pc = "failed", !.error = error, !.request = NoRequest]
        ELSE tasks[u]]

\* TasksAfterRejection with a retry policy: a rejected request is dispatched
\* again, the bytes are read anew
TasksAfterRejectionRetried(t, error) ==
    IF error = "RequestError"
    THEN [tasks EXCEPT ![t] = [@ EXCEPT !.pc = "readBinary", !.reads = @ + 1,
                                        !.request = NoRequest]]
    ELSE [tasks EXCEPT ![t] = [@ EXCEPT !.pc = "failed", !.error = error,
                                        !.request = NoRequest]]

\* the tasks after the promise of task t is rejected with error: only the chain
\* of t is settled
TasksAfterRejection(t, error) ==
    [tasks EXCEPT ![t] = [@ EXCEPT !.pc = "failed", !.error = error,
                                   !.request = NoRequest]]

\* Catch with a second handler on the chain: the rejection is reported twice
CatchReportedTwice(t, error) ==
    /\ tasks' = TasksAfterRejection(t, error)
    /\ notices' = notices \o
            << [message |-> ErrorNoticeMessage(settings.debug,
                                              FileName(tasks[t].file), error),
                task |-> t],
               [message |-> ErrorNoticeMessage(settings.debug,
                                              FileName(tasks[t].file), error),
                task |-> t] >>

\* the catch handler of task t, lines 174-186
Catch(t, error) ==
    /\ tasks' = TasksAfterRejection(t, error)
    /\ notices' = Append(notices,
            [message |-> ErrorNoticeMessage(settings.debug,
                                            FileName(tasks[t].file), error),
             task |-> t])

\* Waiting without the run to completion of the callback: a continuation may
\* execute between two iterations of the dispatch loop
WaitingAnyTime(t, pc) ==
    /\ t \in 1..Len(tasks)
    /\ tasks[t].pc = pc

\* the continuation of task t waits at pc; it runs only when the callback has
\* returned (the loop of lines 111-116 has no await)
Waiting(t, pc) ==
    /\ queue = << >>
    /\ t \in 1..Len(tasks)
    /\ tasks[t].pc = pc

\* vault.readBinary resolves; the body is built and requestUrl is called
\* (transcribe.ts, lines 83-116)
ReadBinaryResolve(t, random) ==
    /\ Waiting(t, "readBinary")
    /\ tasks' = [tasks EXCEPT ![t] = [@ EXCEPT
            !.pc = "requestUrl",
            !.posts = @ + 1,
            !.request = RequestOptions(vaultBinary[tasks[t].file],
                                       RandomBoundaryString(random),
                                       settings.whisperASRUrl)]]
    /\ UNCHANGED <<settings, links, vaultFiles, vaultBinary, doc, created, queue,
                   candidates, notices, runs>>

\* vault.readBinary rejects
ReadBinaryReject(t) ==
    /\ Waiting(t, "readBinary")
    /\ Catch(t, "ReadError")
    /\ UNCHANGED <<settings, links, vaultFiles, vaultBinary, doc, created, queue,
                   candidates, runs>>

\* requestUrl resolves and response.json is returned as it is (transcribe.ts,
\* lines 116-121); the continuation of line 116 of main.ts starts and calls vault.read
RequestResolve(t, json) ==
    /\ Waiting(t, "requestUrl")
    /\ tasks' = [tasks EXCEPT ![t] = [@ EXCEPT
            !.pc = "vaultRead", !.request = NoRequest, !.transcription = json]]
    /\ UNCHANGED <<settings, links, vaultFiles, vaultBinary, doc, created, queue,
                   candidates, notices, runs>>

\* requestUrl rejects (no connection, a status of 400 or more), or response.json
\* throws on a body that is no JSON (transcribe.ts, lines 122-125)
RequestReject(t) ==
    /\ Waiting(t, "requestUrl")
    /\ Catch(t, "RequestError")
    /\ UNCHANGED <<settings, links, vaultFiles, vaultBinary, doc, created, queue,
                   candidates, runs>>

\* ReadText with the text of the document as it was when the links were
\* collected, before any completion or edit
ReadTextAtDispatch(t) == DocOf(links)

\* the text vault.read(view.file) resolves with, line 119: the current one
ReadText(t) == doc

\* vault.read resolves with the current text; lines 126-157 compute the new
\* text, transcription.segments.map throws a TypeError unless segments is a
\* list; vault.modify is called with the new text (line 161)
VaultReadResolve(t) ==
    /\ Waiting(t, "vaultRead")
    /\ IF IsTranscriptionResult(tasks[t].transcription)
       THEN /\ \E fileLinkString \in {FileToLinktext(tasks[t].file)} :
                tasks' = [tasks EXCEPT ![t] = [@ EXCEPT
                    !.pc = "vaultModify",
                    !.fileText = Spliced(ReadText(t), fileLinkString,
                                         tasks[t].transcription)]]
            /\ UNCHANGED notices
       ELSE Catch(t, "TypeError")
    /\ UNCHANGED <<settings, links, vaultFiles, vaultBinary, doc, created, queue,
                   candidates, runs>>

\* vault.read rejects
VaultReadReject(t) ==
    /\ Waiting(t, "vaultRead")
    /\ Catch(t, "ReadError")
    /\ UNCHANGED <<settings, links, vaultFiles, vaultBinary, doc, created, queue,
                   candidates, runs>>

\* ModifiedText with the transcript spliced into the text the document holds
\* at the write, as a write under a lock with a second read would
ModifiedTextRebased(t) ==
    Spliced(doc, FileToLinktext(tasks[t].file), tasks[t].transcription)

\* the text vault.modify(view.file, fileText) writes, line 161: the one computed
\* from the text read at line 119
ModifiedText(t) == tasks[t].fileText

\* vault.modify resolves: the document holds the new text; vault.createBinary is
\* called (lines 164-172)
VaultModifyResolve(t) ==
    /\ Waiting(t, "vaultModify")
    /\ doc' = ModifiedText(t)
    /\ tasks' = [tasks EXCEPT ![t] = [@ EXCEPT !.pc = "createBinary", !.wrote = TRUE]]
    /\ UNCHANGED <<settings, links, vaultFiles, vaultBinary, created, queue,
                   candidates, notices, runs>>

\* vault.modify rejects
VaultModifyReject(t) ==
    /\ Waiting(t, "vaultModify")
    /\ Catch(t, "WriteError")
    /\ UNCHANGED <<settings, links, vaultFiles, vaultBinary, doc, created, queue,
                   candidates, runs>>

\* vault.createBinary settles: it creates a new file, and rejects when a file
\* of that path exists
CreateBinarySettle(t) ==
    /\ Waiting(t, "createBinary")
    /\ \E path \in {SidecarPath(tasks[t].file)} :
           IF path \in vaultFiles
           THEN /\ Catch(t, "File already exists.")
                /\ UNCHANGED <<vaultFiles, created>>
           ELSE /\ created' = created \cup
                        {[path |-> path, data |-> JsonStringify(tasks[t].transcription)]}
                /\ vaultFiles' = vaultFiles \cup {path}
                /\ tasks' = [tasks EXCEPT ![t] = [@ EXCEPT !.pc = "done"]]
                /\ UNCHANGED notices
    /\ UNCHANGED <<settings, links, vaultBinary, doc, queue, candidates, runs>>

\* the toggle "Debug mode" of the settings tab, lines 277-287
SetDebug(value) ==
    /\ queue = << >>
    /\ settings.debug # value
    /\ settings' = [settings EXCEPT !.debug = value]
    /\ UNCHANGED <<links, vaultFiles, vaultBinary, doc, created, queue, candidates,
                   tasks, notices, runs>>

Next ==
    \/ StartRun
    \/ DispatchNext
    \/ \E t \in 1..Len(tasks) :
        \/ \E random \in RandomStringValues(RandomLen) : ReadBinaryResolve(t, random)
        \/ ReadBinaryReject(t)
        \/ \E json \in MainReplies : RequestResolve(t, json)
        \/ RequestReject(t)
        \/ VaultReadResolve(t)
        \/ VaultReadReject(t)
        \/ VaultModifyResolve(t)
        \/ VaultModifyReject(t)
        \/ CreateBinarySettle(t)
    \/ \E value \in BOOLEAN : SetDebug(value)

Spec == Init /\ [][Next]_vars

\* link collection alone, over every document and every setting
NextCollect ==
    \/ StartRun
    \/ DispatchNext

SpecCollect == InitCollect /\ [][NextCollect]_vars

\* the construction of the request alone, over every file content
NextMultipart ==
    \/ StartRun
    \/ DispatchNext
    \/ \E t \in 1..Len(tasks), random \in RandomStringValues(RandomLen) :
            ReadBinaryResolve(t, random)

SpecMultipart == InitMultipart /\ [][NextMultipart]_vars

\* the integration alone, over every reply of the service
NextSplice ==
    \/ StartRun
    \/ DispatchNext
    \/ \E t \in 1..Len(tasks) :
        \/ \E random \in RandomStringValues(RandomLen) : ReadBinaryResolve(t, random)
        \/ \E json \in AllReplies : RequestResolve(t, json)
        \/ VaultReadResolve(t)
        \/ VaultModifyResolve(t)
        \/ CreateBinarySettle(t)

SpecSplice ==
    InitWith(SeqsUpTo({AM, BM}, MaxLinks), {ExtMW}, {FALSE}, {Paths}, {MainBinary})
    /\ [][NextSplice]_vars

---------------------------------------------------------------------------
(* Properties *)

TaskIds == 1..Len(tasks)

Contains(s, t) == IndexOf(s, t) >= 0

\* the number of occurrences of t in s
Occurrences(s, t) == Cardinality({i \in 0..Len(s) : OccursAt(s, t, i)})

\* task t fails in this step
FailsNow(t) == tasks[t].pc # "failed" /\ tasks'[t].pc = "failed"

\* C1: failure isolation.  A step in which the chain of a reference F fails
\* leaves every other chain as it is, and leaves the document and the files of
\* the vault as they are, so no step of another reference G is cancelled or
\* disabled by it; and every chain that completes has written its transcript
\* into the document and its transcription into its sidecar file.
C1_FailureIsolation ==
    /\ [](\A g \in TaskIds :
            tasks[g].pc = "done" =>
                /\ tasks[g].wrote
                /\ [path |-> SidecarPath(tasks[g].file),
                    data |-> JsonStringify(tasks[g].transcription)] \in created)
    /\ [][\A f \in TaskIds :
            FailsNow(f) =>
                /\ Len(tasks') = Len(tasks)
                /\ \A g \in TaskIds \ {f} : tasks'[g] = tasks[g]
                /\ doc' = doc
                /\ created' = created
                /\ vaultFiles' = vaultFiles
                /\ queue' = queue]_vars

\* C1 witness: in one run a reference has failed and another has completed
C1_Witness ==
    \E f, g \in TaskIds :
        /\ f # g
        /\ tasks[f].run = tasks[g].run
        /\ tasks[f].pc = "failed"
        /\ tasks[g].pc = "done"
        /\ Contains(doc, FileLinkStringTagged(FileToLinktext(tasks[g].file))
                         \o <<"\n">> \o SegmentsText(tasks[g].transcription))

\* task t goes from the read of the document to the call of vault.modify
SplicesNow(t) == tasks[t].pc = "vaultRead" /\ tasks'[t].pc = "vaultModify"

Citation(t) == FileLinkStringTagged(FileToLinktext(tasks[t].file))

\* new is old with something inserted at the 0-based position pos, and nothing
\* else changed
InsertedAt(old, new, pos) ==
    /\ Len(new) >= Len(old)
    /\ SubSeq(new, 1, pos) = SubSeq(old, 1, pos)
    /\ SubSeq(new, Len(new) - (Len(old) - pos) + 1, Len(new))
           = SubSeq(old, pos + 1, Len(old))

\* C2 as stated: the text handed to vault.modify is the text read with the
\* transcript inserted right after the LAST occurrence of the citation.
C2_AfterLastOccurrence ==
    [][\A t \in TaskIds :
        SplicesNow(t) /\ Contains(doc, Citation(t)) =>
            InsertedAt(doc, tasks'[t].fileText,
                       LastIndexOf(doc, Citation(t)) + Len(Citation(t)))]_vars

\* C2 amended: the text handed to vault.modify is the text read with the
\* transcript inserted right after the FIRST occurrence of the citation; the
\* text before and after that position is unchanged.
C2_AfterFirstOccurrence ==
    [][\A t \in TaskIds :
        SplicesNow(t) /\ Contains(doc, Citation(t)) =>
            /\ Len(tasks'[t].fileText) > Len(doc)
            /\ InsertedAt(doc, tasks'[t].fileText,
                          IndexOf(doc, Citation(t)) + Len(Citation(t)))]_vars

\* C2 witness: a text is about to be written in which the citation occurs twice
\* and the transcript follows the first occurrence
C2_Witness ==
    \E t \in TaskIds :
        /\ tasks[t].pc = "vaultModify"
        /\ Occurrences(tasks[t].fileText, Citation(t)) = 2
        /\ tasks[t].transcription = ReplyHello
        /\ IndexOf(tasks[t].fileText, Citation(t) \o <<"\n", "H", "\n", "w", "\n">>)
               = IndexOf(tasks[t].fileText, Citation(t))

\* a segment text without its leading and trailing white space: the part from
\* its first to its last character that is no white space
Trimmed(s) ==
    LET solid == {i \in 1..Len(s) : s[i] \notin WhiteSpace}
    IN  IF solid = {} THEN << >>
        ELSE SubSeq(s, CHOOSE i \in solid : \A j \in solid : i <= j,
                       CHOOSE i \in solid : \A j \in solid : i >= j)

\* the trimmed segment texts, a newline between each two
RECURSIVE TrimmedLines(_)
TrimmedLines(items) ==
    IF items = << >> THEN << >>
    ELSE LET front == SubSeq(items, 1, Len(items) - 1)
         IN  (IF front = << >> THEN << >> ELSE TrimmedLines(front) \o <<"\n">>)
             \o Trimmed(items[Len(items)])

\* the text read by task t with inserted put right after the first citation
WithInserted(t, inserted) ==
    LET pos == IndexOf(doc, Citation(t)) + Len(Citation(t))
    IN  SubSeq(doc, 1, pos) \o inserted \o SubSeq(doc, pos + 1, Len(doc))

\* C3 as stated: what is inserted after the citation is the trimmed segment
\* texts joined by a newline, and no character more.
C3_ExactlySegments ==
    [][\A t \in TaskIds :
        SplicesNow(t) /\ Contains(doc, Citation(t)) =>
            tasks'[t].fileText =
                WithInserted(t, TrimmedLines(tasks[t].transcription.segments.items))]_vars

\* C3 amended: what is inserted after the citation is one newline followed by
\* the trimmed segment texts joined by a newline, and no character more.
C3_NewlineThenSegments ==
    [][\A t \in TaskIds :
        SplicesNow(t) /\ Contains(doc, Citation(t)) =>
            tasks'[t].fileText =
                WithInserted(t, <<"\n">> \o
                    TrimmedLines(tasks[t].transcription.segments.items))]_vars

\* C3 witness: the segments "H" and " w " are about to be written as "\nH\nw"
C3_Witness ==
    \E t \in TaskIds :
        /\ tasks[t].pc = "vaultModify"
        /\ tasks[t].transcription.segments.items = <<Hello, World>>
        /\ Contains(tasks[t].fileText, Citation(t) \o <<"\n", "H", "\n", "w", "\n", "[">>)

\* C4 as stated: a transcription that succeeds for a reference whose sidecar
\* file exists already, written by an earlier completion for the same file,
\* replaces the sidecar and reports no failure.
C4_SidecarOverwritten ==
    \A t, u \in TaskIds :
        /\ t # u
        /\ tasks[t].file = tasks[u].file
        /\ tasks[u].pc = "done"
        /\ tasks[t].wrote
        => tasks[t].pc # "failed"

\* the name of a file without its extension
FileStem(name) ==
    LET i == LastIndexOf(name, <<".">>)
    IN  IF i = -1 THEN name ELSE Slice(name, 0, i)

\* C5 as stated: every sidecar is written in the folder of its audio file under
\* the name <file-stem>.json.
C5_SidecarNamedByStem ==
    \A c \in created :
        \E t \in TaskIds :
            c.path = ParentPath(tasks[t].file) \o <<"/">>
                     \o FileStem(FileName(tasks[t].file)) \o <<".", "j", "s", "o", "n">>

\* the Notice added in this step, if the step adds one for a task
AddsErrorNotice ==
    /\ Len(notices') = Len(notices) + 1
    /\ notices'[Len(notices')].task # 0

PointsAtDebugMode(message) ==
    \E i \in 1..Len(message) :
        message[i] \in {"Error transcribing file, enable debug mode to see more",
                        ", enable debug mode to see more"}

\* C6 as stated: every failure shows a Notice that names the failing file, in
\* debug mode and without it.
C6_NoticeNamesFile ==
    \A i \in 1..Len(notices) :
        notices[i].task # 0 =>
            Contains(notices[i].message, FileName(tasks[notices[i].task].file))

\* C6 amended: every failure of a reference shows one Notice in the same step;
\* with debug mode on it names the failing file and carries the error, with
\* debug mode off it names no file, carries no error and points at debug mode.
C6_NoticePerMode ==
    [][/\ \A t \in TaskIds :
            FailsNow(t) => AddsErrorNotice /\ notices'[Len(notices')].task = t
       /\ AddsErrorNotice =>
            LET n == notices'[Len(notices')]
                name == FileName(tasks[n.task].file)
                error == tasks'[n.task].error
            IN  /\ FailsNow(n.task)
                /\ error # ""
                /\ IF settings.debug
                   THEN /\ Contains(n.message, name)
                        /\ Contains(n.message, <<error>>)
                        /\ ~PointsAtDebugMode(n.message)
                   ELSE /\ ~Contains(n.message, name)
                        /\ ~Contains(n.message, <<error>>)
                        /\ PointsAtDebugMode(n.message)]_vars

\* C6 witness: one failure was shown with debug mode on and one with it off
C6_Witness ==
    \E i, j \in 1..Len(notices) :
        /\ notices[i].task # 0
        /\ notices[j].task # 0
        /\ tasks[notices[i].task].pc = "failed"
        /\ tasks[notices[j].task].pc = "failed"
        /\ Contains(notices[i].message, FileName(tasks[notices[i].task].file))
        /\ PointsAtDebugMode(notices[j].message)

\* the allowed extensions: the members of the comma-separated setting
AllowedExtensions ==
    {Split(settings.transcribeFileExtensions, ",")[i] :
        i \in 1..Len(Split(settings.transcribeFileExtensions, ","))}

\* the substring of a path after its final ".", the whole path if it has none
AfterFinalDot(path) == SliceFrom(path, LastIndexOf(path, <<".">>) + 1)

AllResolvable == \A i \in 1..Len(links) : links[i] \in vaultFiles

\* the position of the first occurrence of the path p among the links
FirstLink(p) == CHOOSE i \in 1..Len(links) : links[i] = p /\ \A j \in 1..(i - 1) : links[j] # p

\* C7 as stated: the candidates are the links of the document whose extension
\* is allowed, in the order of the document and one per occurrence.
C7_SubsequenceWithDuplicates ==
    runs > 0 /\ AllResolvable =>
        candidates = SelectSeq(links, LAMBDA p : AfterFinalDot(p) \in AllowedExtensions)

\* C7 amended: the candidates are the distinct linked paths whose part after
\* the final "." is allowed (case-sensitively), each once however often it is
\* linked, in the order of their first occurrence in the document.
C7_DistinctInFirstOccurrenceOrder ==
    runs > 0 /\ AllResolvable =>
        /\ {candidates[i] : i \in 1..Len(candidates)}
               = {links[i] : i \in {j \in 1..Len(links) :
                                        AfterFinalDot(links[j]) \in AllowedExtensions}}
        /\ \A i, j \in 1..Len(candidates) :
               i < j => FirstLink(candidates[i]) < FirstLink(candidates[j])

\* C7 witness: a link occurs twice, around another candidate, and is one candidate
C7_Witness ==
    /\ runs > 0
    /\ links = <<BM, AM, BM>>
    /\ candidates = <<BM, AM>>

\* C8 as stated: a link whose path has no "." is no candidate and is never
\* dispatched, whatever the allowed extensions are.
C8_NoExtensionExcluded ==
    /\ \A i \in 1..Len(candidates) : Contains(candidates[i], <<".">>)
    /\ \A t \in TaskIds : Contains(tasks[t].file, <<".">>)

\* the value of the parameter boundary of a Content-Type header
BoundaryParameter(contentType) ==
    SliceFrom(contentType, IndexOf(contentType, <<"boundary=">>) + 1)

\* the header block of the part, after the opening delimiter
PartHeaders ==
    CRLF \o <<"Content-Disposition: form-data; name=\"audio_file\"; filename=\"blob\"">>
    \o CRLF \o <<"Content-Type: \"application/octet-stream\"">> \o CRLF \o CRLF

\* C9: the body of every request is "--" and the boundary parameter of its
\* Content-Type header, the header block, the bytes of the audio file as they
\* are, CRLF, and "--", the same boundary parameter and "--".
C9_MultipartFraming ==
    \A t \in TaskIds :
        tasks[t].pc = "requestUrl" =>
            LET boundary == BoundaryParameter(tasks[t].request.contentType)
            IN  /\ Contains(tasks[t].request.contentType, <<"boundary=">>)
                /\ boundary # << >>
                /\ tasks[t].request.body =
                       <<"-", "-">> \o boundary \o PartHeaders
                       \o vaultBinary[tasks[t].file]
                       \o CRLF \o <<"-", "-">> \o boundary \o <<"-", "-">>

\* C9 witness: a request is in flight for a file whose bytes contain CR LF and "-"
C9_Witness ==
    \E t \in TaskIds :
        /\ tasks[t].pc = "requestUrl"
        /\ vaultBinary[tasks[t].file] = <<"\r", "\n", "-">>
        /\ Len(tasks[t].request.body) > Len(vaultBinary[tasks[t].file])

\* C10 as stated: the client never resolves with a value that lacks the shape
\* of a TranscriptionResult.
C10_ResolvesOnlyWithResult ==
    \A t \in TaskIds :
        tasks[t].transcription # NoJson => IsTranscriptionResult(tasks[t].transcription)

---------------------------------------------------------------------------
(* The setting "Enable timestamps" *)

\* the toggle "Enable timestamps" of the settings tab, lines 237-247
SetTimestamps(value) ==
    /\ queue = << >>
    /\ settings.timestamps # value
    /\ settings' = [settings EXCEPT !.timestamps = value]
    /\ UNCHANGED <<links, vaultFiles, vaultBinary, doc, created, queue, candidates,
                   tasks, notices, runs>>

\* the integration, with the timestamps setting switched on and off
NextTimestamps ==
    \/ NextSplice
    \/ \E value \in BOOLEAN : SetTimestamps(value)

SpecTimestamps ==
    InitWith({<<AM>>, <<AM, BM>>}, {ExtMW}, {FALSE}, {Paths}, {MainBinary})
    /\ [][NextTimestamps]_vars

\* C11 as stated: the inserted text depends on the setting: with timestamps
\* enabled every inserted line begins with the timestamp of its segment, so
\* the text written is not the text written with timestamps disabled, whose
\* lines are the trimmed segment texts alone.
C11_TimestampsPrefixLines ==
    [][\A t \in TaskIds :
        /\ SplicesNow(t)
        /\ settings.timestamps
        /\ Contains(doc, Citation(t))
        /\ tasks[t].transcription.segments.items # << >>
        => tasks'[t].fileText #
               WithInserted(t, <<"\n">> \o
                   TrimmedLines(tasks[t].transcription.segments.items))]_vars

---------------------------------------------------------------------------
(* Edits of the document by the user while transcriptions are in flight *)

Edit == <<"e">>
Alias == <<"|", "x">>

\* the user types a text at the end of the document
UserAppend ==
    /\ queue = << >>
    /\ Occurrences(doc, Edit) < MaxEdits
    /\ doc' = doc \o Edit
    /\ UNCHANGED <<settings, links, vaultFiles, vaultBinary, created, queue,
                   candidates, tasks, notices, runs>>

\* the user gives the first link to the file p an alias: [[name]] becomes
\* [[name|x]], which links the same file
UserAlias(p) ==
    /\ queue = << >>
    /\ Contains(doc, FileLinkStringTagged(FileToLinktext(p)))
    /\ LET inner == IndexOf(doc, FileLinkStringTagged(FileToLinktext(p)))
                        + Len(FileToLinktext(p)) + 2
       IN  doc' = Slice(doc, 0, inner) \o Alias \o SliceFrom(doc, inner)
    /\ UNCHANGED <<settings, links, vaultFiles, vaultBinary, created, queue,
                   candidates, tasks, notices, runs>>

\* the integration, with edits of the user in between
NextEdit ==
    \/ StartRun
    \/ DispatchNext
    \/ \E t \in 1..Len(tasks) :
        \/ \E random \in RandomStringValues(RandomLen) : ReadBinaryResolve(t, random)
        \/ \E json \in {ReplyHello} : RequestResolve(t, json)
        \/ VaultReadResolve(t)
        \/ VaultModifyResolve(t)
        \/ CreateBinarySettle(t)
    \/ UserAppend
    \/ \E p \in {AM, CW} : UserAlias(p)

SpecEdit ==
    InitWith({<<AM>>, <<AM, CW>>}, {ExtMW}, {FALSE}, {Paths}, {MainBinary})
    /\ [][NextEdit]_vars

\* the transcript of task t as the continuation inserts it after the citation
Inserted(t) == Citation(t) \o <<"\n">> \o SegmentsText(tasks[t].transcription)

\* C12: the text a completion hands to vault.modify is the text of the
\* document at the moment of its read, whole, with one piece inserted: every
\* edit and every write of another completion that the document holds at the
\* read is in the text written.
C12_FreshReadAtCompletion ==
    [][\A t \in TaskIds :
        SplicesNow(t) =>
            LET new == tasks'[t].fileText
                grown == Len(new) - Len(doc)
            IN  /\ grown >= 1
                /\ \E k \in 0..Len(doc) :
                       SubSeq(new, 1, k) \o SubSeq(new, k + grown + 1, Len(new)) = doc]_vars

\* C12 witness: a completion is about to write a text that holds an edit of the
\* user and the transcript written by another completion of the same run, both
\* absent from the document when the run started
C12_Witness ==
    \E t, u \in TaskIds :
        /\ t # u
        /\ tasks[t].run = tasks[u].run
        /\ tasks[t].pc = "vaultModify"
        /\ tasks[u].wrote
        /\ tasks[u].transcription = ReplyHello
        /\ Contains(tasks[t].fileText, Inserted(u))
        /\ Contains(tasks[t].fileText, Edit)

---------------------------------------------------------------------------
(* Concurrency of the completions *)

\* task t writes the document in this step
WritesNow(t) == tasks[t].pc = "vaultModify" /\ tasks'[t].pc = "createBinary"

\* C13: the write of a completion replaces the document by the text computed
\* at its read.  When another completion u has written its transcript and the
\* text of t does not hold it (t read before u wrote), the document after the
\* write of t is the text of t and u's transcript is gone from it.
C13_LastWriteWins ==
    [][\A t, u \in TaskIds :
        /\ t # u
        /\ WritesNow(t)
        /\ tasks[u].wrote
        /\ Contains(tasks[u].fileText, Inserted(u))
        /\ ~Contains(tasks[t].fileText, Inserted(u))
        => /\ doc' = tasks[t].fileText
           /\ ~Contains(doc', Inserted(u))]_vars

\* C13 witness: two references of one run have both completed, no failure was
\* reported, neither text read held the other's transcript, and the document
\* is the text of one and lacks the transcript of the other
C13_Witness ==
    \E t, u \in TaskIds :
        /\ t # u
        /\ tasks[t].run = tasks[u].run
        /\ tasks[t].pc = "done"
        /\ tasks[u].pc = "done"
        /\ \A i \in 1..Len(notices) : notices[i].task = 0
        /\ ~Contains(tasks[t].fileText, Inserted(u))
        /\ ~Contains(tasks[u].fileText, Inserted(t))
        /\ Contains(tasks[u].fileText, Inserted(u))
        /\ doc = tasks[t].fileText
        /\ ~Contains(doc, Inserted(u))

\* the files of the tasks run r dispatched, in the order of dispatch
RunFiles(r) ==
    LET s == SelectSeq(tasks, LAMBDA x : x.run = r)
    IN  [i \in 1..Len(s) |-> s[i].file]

\* C14: the run dispatches the client for the candidates in candidate order;
\* while a candidate is left to dispatch no continuation executes (no task, the
\* document and the notices do not change); when the last one is dispatched
\* the callback returns with every task of the run still at its first await.
C14_FanOutWithoutJoin ==
    /\ [](RunFiles(runs) \o queue = candidates)
    /\ [][queue # << >> =>
            /\ \A t \in TaskIds : tasks'[t] = tasks[t]
            /\ doc' = doc
            /\ notices' = notices
            /\ created' = created
            /\ queue' = << >> =>
                 \A t \in 1..Len(tasks') :
                    tasks'[t].run = runs => tasks'[t].pc = "readBinary"]_vars

\* C14 witness: the callback has returned, a later candidate of the run has
\* completed and an earlier one is still at its first await
C14_Witness ==
    /\ queue = << >>
    /\ \E t, u \in TaskIds :
        /\ t < u
        /\ tasks[t].run = tasks[u].run
        /\ tasks[t].pc = "readBinary"
        /\ tasks[u].pc = "done"

\* C15: every task has read the bytes of its file once (vault.readBinary is
\* called at the dispatch, tasks[t].reads counts the calls) and has issued at
\* most one request (tasks[t].posts counts the calls of requestUrl), none before
\* the bytes are read and one after; the tasks of a run have distinct files;
\* a failed task never changes again.
C15_NoRetry ==
    /\ [](\A t \in TaskIds :
            /\ tasks[t].reads = 1
            /\ tasks[t].posts \in {0, 1}
            /\ tasks[t].pc = "readBinary" => tasks[t].posts = 0
            /\ tasks[t].pc \in {"requestUrl", "vaultRead", "vaultModify",
                                "createBinary", "done"} => tasks[t].posts = 1
            /\ \A u \in TaskIds :
                    u # t /\ tasks[u].run = tasks[t].run
                        => tasks[u].file # tasks[t].file)
    /\ [][\A t \in TaskIds :
            tasks[t].pc = "failed" => tasks'[t] = tasks[t]]_vars

\* C15 witness: two tasks of one run, the request of one was rejected and the
\* other one completed, each after one read and one request
C15_Witness ==
    \E t, u \in TaskIds :
        /\ tasks[t].run = tasks[u].run
        /\ tasks[t].pc = "failed"
        /\ tasks[t].error = "RequestError"
        /\ tasks[u].pc = "done"
        /\ tasks[t].reads = 1 /\ tasks[t].posts = 1
        /\ tasks[u].reads = 1 /\ tasks[u].posts = 1

---------------------------------------------------------------------------
(* Termination of the chains *)

\* one step of the chain of task t: an operation of the host or of the network
\* resolves or rejects and the continuation runs
TaskStep(t) ==
    \/ \E random \in RandomStringValues(RandomLen) : ReadBinaryResolve(t, random)
    \/ ReadBinaryReject(t)
    \/ \E json \in {ReplyHello, ReplyNoSegments} : RequestResolve(t, json)
    \/ RequestReject(t)
    \/ VaultReadResolve(t)
    \/ VaultReadReject(t)
    \/ VaultModifyResolve(t)
    \/ VaultModifyReject(t)
    \/ CreateBinarySettle(t)

NextFair ==
    \/ StartRun
    \/ DispatchNext
    \/ \E t \in 1..MaxTasks : TaskStep(t)

\* the loop goes on to its end, and every pending operation settles
SpecFair ==
    /\ InitWith({<<AM>>, <<AM, CW>>}, {ExtMW}, {FALSE}, {Paths}, {MainBinary})
    /\ [][NextFair]_vars
    /\ WF_vars(DispatchNext)
    /\ \A t \in 1..MaxTasks : WF_vars(TaskStep(t))

\* the number of failure Notices of task t
ErrorNotices(t) ==
    Cardinality({i \in 1..Len(notices) : notices[i].task = t})

Terminal == {"done", "failed"}

\* C16: a task has a failure Notice exactly when it has failed, and then one;
\* a completed task has its sidecar written and no failure Notice; a settled
\* task never changes; every dispatched task is eventually settled.
C16_OneTerminalOutcome ==
    /\ [](\A t \in TaskIds :
            /\ ErrorNotices(t) = (IF tasks[t].pc = "failed" THEN 1 ELSE 0)
            /\ tasks[t].pc = "done" =>
                 \E f \in created : f.path = SidecarPath(tasks[t].file))
    /\ [][\A t \in TaskIds :
            tasks[t].pc \in Terminal =>
                tasks'[t] = tasks[t] /\ ErrorNotices(t)' = ErrorNotices(t)]_vars
    /\ \A t \in 1..MaxTasks :
            (t \in TaskIds) ~> (t \in TaskIds /\ tasks[t].pc \in Terminal)

\* C16 witness: every task of a run is settled, one with its sidecar written
\* and one with its failure Notice
C16_Witness ==
    \E t, u \in TaskIds :
        /\ tasks[t].run = tasks[u].run
        /\ tasks[t].pc = "done"
        /\ ErrorNotices(t) = 0
        /\ tasks[u].pc = "failed"
        /\ ErrorNotices(u) = 1

---------------------------------------------------------------------------
(* The document and the failures *)

\* C17: the document holds the text written for a task only if no failure
\* Notice is shown for that task.  (Violated: vault.modify precedes
\* vault.createBinary in one chain with one catch handler, so a rejected
\* sidecar write is reported after the document was changed.)
C17_ModifiedOnlyIfNotFailed ==
    \A t \in TaskIds : tasks[t].wrote => ErrorNotices(t) = 0

\* C18: a completion that reads a text without the citation of its reference
\* hands the text read, unchanged, to vault.modify.  (Violated: indexOf is -1,
\* startReplacementIndex is the length of the citation minus one, and the
\* transcript is inserted at that position of the text.)
C18_MissingCitationUnchanged ==
    [][\A t \in TaskIds :
        SplicesNow(t) /\ ~Contains(doc, Citation(t))
            => tasks'[t].fileText = doc]_vars

---------------------------------------------------------------------------
(* The completions one at a time *)

\* a reply whose one segment is the text "[[c.w]]"
ReplyCitesCW ==
    Json(FileLinkStringTagged(FileToLinktext(CW)), "list",
         <<FileLinkStringTagged(FileToLinktext(CW))>>)

\* lines 119-161 with no other completion between vault.read and vault.modify:
\* the step of VaultReadResolve followed at once by the one of VaultModifyResolve
ReadModifyWrite(t) ==
    /\ Waiting(t, "vaultRead")
    /\ IsTranscriptionResult(tasks[t].transcription)
    /\ \E fileLinkString \in {FileToLinktext(tasks[t].file)} :
       \E fileText \in {Spliced(ReadText(t), fileLinkString, tasks[t].transcription)} :
            /\ doc' = fileText
            /\ tasks' = [tasks EXCEPT ![t] = [@ EXCEPT
                    !.pc = "createBinary", !.fileText = fileText, !.wrote = TRUE]]
    /\ UNCHANGED <<settings, links, vaultFiles, vaultBinary, created, queue,
                   candidates, notices, runs>>

NextSerial ==
    \/ StartRun
    \/ DispatchNext
    \/ \E t \in 1..Len(tasks) :
        \/ \E random \in RandomStringValues(RandomLen) : ReadBinaryResolve(t, random)
        \/ \E json \in {ReplyHello, ReplySpaced, ReplyCitesCW} : RequestResolve(t, json)
        \/ ReadModifyWrite(t)
        \/ CreateBinarySettle(t)

SpecSerial ==
    /\ InitWith({<<AM, CW>>, <<CW, AM>>, <<AM, CW, AM>>, <<AM, BM, CW>>},
                {ExtMW}, {FALSE}, {Paths}, {MainBinary})
    /\ [][NextSerial]_vars

\* the document after the completions of the tasks 1..n, one at a time in the
\* order of dispatch
RECURSIVE SerialDoc(_)
SerialDoc(n) ==
    IF n = 0 THEN DocOf(links)
    ELSE Spliced(SerialDoc(n - 1), FileToLinktext(tasks[n].file),
                 tasks[n].transcription)

\* every candidate of the one run is dispatched and has written the document
AllWritten ==
    /\ runs = 1
    /\ queue = << >>
    /\ tasks # << >>
    /\ \A t \in TaskIds : tasks[t].wrote

\* C19: when the completions run one at a time, whatever their order the final
\* document is the one of the order of dispatch, and it holds the transcript of
\* every reference right after the citation of that reference.  (Violated by a
\* transcript that holds the citation of another reference.)
C19_OrderIndependent ==
    AllWritten =>
        /\ doc = SerialDoc(Len(tasks))
        /\ \A t \in TaskIds : Contains(doc, Inserted(t))
=============================================================================
